---- MODULE Spec2Model ----
(***************************************************************************)
(* Model of the mock orchestration API of web/page0/src/test_apis.py: the  *)
(* in-memory tree mem["zones"] (zone -> hosts -> groups -> cvds), the seed *)
(* DATA, the request handlers and the deferred tasks bg_run starts.        *)
(*                                                                         *)
(* Python lists are objects: mem["zones"][z] and DATA["zones"][z] may be   *)
(* the same list.  The model keeps the lists in a heap and lets mem and    *)
(* DATA hold references into it.                                           *)
(*                                                                         *)
(* The server (server.py:63, app.run) handles requests on threads, so a    *)
(* handler blocked in asyncio.run interleaves with other handlers.  A      *)
(* handler's lookup and a task's body are each one step.                   *)
(***************************************************************************)
EXTENDS Integers, Sequences, FiniteSets, TLC

VARIABLES heap, mem, reqs, last, nops

vars == <<heap, mem, reqs, last, nops>>

(* ---------------------------- bounds ----------------------------------- *)

\* Handler threads that can be inside a mutating request at once.
MaxThreads == 2
\* Mutating requests accepted (task scheduled) in one run.
MaxOps == 2

Threads == 1..MaxThreads

(* ---------------------------- constants -------------------------------- *)

HostDelay == 1
GroupCreateDelay == 3
GroupDeleteDelay == 10
HostNameLen == 5
OpNameLen == 15

US == "us-central1-a"
AP == "ap-northeast2-c"

DEFAULT_BUILD_SOURCE ==
    [android_ci_build_source |->
        [main_build |-> [branch |-> "aosp-main", build_id |-> "default",
                         target |-> "default"]]]

SeedGcp == [machine_type |-> "", min_cpu_platform |-> ""]

Cvd(n, g) ==
    [name |-> n, build_source |-> DEFAULT_BUILD_SOURCE, status |-> "done",
     displays |-> <<>>, group_name |-> g]

SeedGroup(g) == [name |-> g, cvds |-> <<Cvd("cvd-1", g), Cvd("cvd-2", g)>>]

\* The DATA literal: the value of DATA["zones"] when the module is loaded.
DATA ==
    [zones |->
        [z \in {US, AP} |->
            IF z = US
            THEN << [name |-> "us-host1", gcp |-> SeedGcp,
                     groups |-> <<SeedGroup("group-1")>>],
                    [name |-> "us-host2", gcp |-> SeedGcp, groups |-> <<>>] >>
            ELSE << [name |-> "ap-host1", gcp |-> SeedGcp, groups |-> <<>>],
                    [name |-> "ap-host2", gcp |-> SeedGcp,
                     groups |-> <<SeedGroup("group-1"), SeedGroup("group-2"),
                                  SeedGroup("group-3")>>] >>]]

\* The keys of DATA["zones"] in the order the literal lists them.
DataKeys == <<US, AP>>

(* ---------------------------- inputs ----------------------------------- *)

\* Zone path parameters: the seeded zones and one that was never seeded.
NOWHERE == "eu-west9-z"
ZoneArgs == {US, AP, NOWHERE}
\* What gen_host_name can return, as far as the model draws it.
GenNames == {"A1B2C", "Z9Z9Z"}
\* (zone, host) path parameters: seeded hosts, and a name no zone has.
HostPaths == {<<US, "us-host1">>, <<AP, "ap-host1">>, <<AP, "ap-host2">>,
              <<AP, "no-such-host">>, <<NOWHERE, "no-such-host">>}
\* (zone, host, group) path parameters.
GroupPaths == {<<US, "us-host1", "group-1">>, <<AP, "ap-host2", "group-1">>,
               <<AP, "ap-host2", "group-2">>,
               <<AP, "ap-host2", "no-such-group">>,
               <<AP, "no-such-host", "group-1">>,
               <<NOWHERE, "no-such-host", "group-1">>}
\* host_instance.gcp of a create-host body.
GcpArgs == {[machine_type |-> "n1", min_cpu_platform |-> ""]}
\* group of a create-group body.
GroupBodies == {[name |-> "group-1", cvds |-> <<>>],
                [name |-> "group-9", cvds |-> <<Cvd("cvd-1", "group-9")>>]}
OpNames == {"op0123456789abc"}

(* ---------------------------- the heap --------------------------------- *)

\* The list object the DATA literal holds for zone z, and the list object
\* defaultdict(list) makes for a key z that is missing from mem["zones"].
DataRef(z) == [o |-> "DATA", z |-> z]
MemRef(z) == [o |-> "mem", z |-> z]
Refs == {DataRef(z) : z \in {US, AP}} \cup {MemRef(z) : z \in ZoneArgs}

\* The present content of DATA["zones"][z].
DATA_zones(z) == heap[DataRef(z)]

Keys(zs) == [i \in 1..Len(zs) |-> zs[i].key]
HasKey(zs, z) == \E i \in 1..Len(zs) : zs[i].key = z
RefOf(zs, z) == (CHOOSE i \in 1..Len(zs) : zs[i].key = z)
SetKey(zs, z, ref) ==
    IF HasKey(zs, z)
    THEN [i \in 1..Len(zs) |-> IF zs[i].key = z THEN [key |-> z, ref |-> ref]
                                                ELSE zs[i]]
    ELSE Append(zs, [key |-> z, ref |-> ref])

\* mem["zones"][z] on a defaultdict(list): a missing key is inserted with a
\* new empty list.  The mapping after the access.
Touch(zs, z) == IF HasKey(zs, z) THEN zs ELSE SetKey(zs, z, MemRef(z))
\* The list mem["zones"][z] refers to, after the access.
ZoneRef(zs, z) == Touch(zs, z)[RefOf(Touch(zs, z), z)].ref

(* ---------------------------- helpers ---------------------------------- *)

RECURSIVE Scan(_, _, _)
\* enumerate(xs) from 0-based index i: the first index whose name is name.
Scan(xs, name, i) ==
    IF i >= Len(xs) THEN -1
    ELSE IF xs[i + 1].name = name THEN i
    ELSE Scan(xs, name, i + 1)

\* find_host whose loop keeps going after a match: the last host of the
\* name is returned.
find_host_last(hosts, name) ==
    IF \E k \in 1..Len(hosts) : hosts[k].name = name
    THEN LET k == CHOOSE k \in 1..Len(hosts) :
                    /\ hosts[k].name = name
                    /\ \A j \in (k + 1)..Len(hosts) : hosts[j].name # name
         IN [host |-> <<hosts[k]>>, idx |-> k - 1]
    ELSE [host |-> <<>>, idx |-> -1]

\* (host, idx); host is <<>> for None and <<h>> for the host found.
find_host(hosts, name) ==
    IF hosts = <<>> THEN [host |-> <<>>, idx |-> -1]
    ELSE LET i == Scan(hosts, name, 0)
         IN IF i >= 0 THEN [host |-> <<hosts[i + 1]>>, idx |-> i]
                      ELSE [host |-> <<>>, idx |-> -1]

find_group(groups, name) ==
    IF groups = <<>> THEN [group |-> <<>>, idx |-> -1]
    ELSE LET i == Scan(groups, name, 0)
         IN IF i >= 0 THEN [group |-> <<groups[i + 1]>>, idx |-> i]
                      ELSE [group |-> <<>>, idx |-> -1]

\* random.choices over the alphabet: any name of the sample.
gen_host_name(length) == {n \in GenNames : Len(n) = length}
gen_operation_name(length) == {n \in OpNames : Len(n) = length}

\* list.pop(i) for i >= 0: the list without element i (0-based).
Pop(xs, i) == [k \in 1..(Len(xs) - 1) |-> IF k <= i THEN xs[k] ELSE xs[k + 1]]

\* A state of the store: the mapping mem["zones"] and the lists.
Store(zs, hp) == [zones |-> zs, heap |-> hp]

\* The body of init()'s loop for the i-th key of DATA["zones"] onwards:
\* mem["zones"][zone] = DATA["zones"][zone] binds the key to DATA's own
\* list; no list is copied or changed.
RECURSIVE InitFrom(_, _, _)
InitFrom(zs, hp, i) ==
    IF i > Len(DataKeys) THEN Store(zs, hp)
    ELSE InitFrom(SetKey(zs, DataKeys[i], DataRef(DataKeys[i])), hp, i + 1)

\* init() written with += in place of =: the key's list is extended
\* by DATA's list.
RECURSIVE InitExtendFrom(_, _, _)
InitExtendFrom(zs, hp, i) ==
    IF i > Len(DataKeys) THEN Store(zs, hp)
    ELSE LET z == DataKeys[i]
         IN InitExtendFrom(Touch(zs, z),
                           [hp EXCEPT ![ZoneRef(zs, z)] = @ \o hp[DataRef(z)]],
                           i + 1)
init_extend(zs, hp) == InitExtendFrom(zs, hp, 1)

init(zs, hp) == InitFrom(zs, hp, 1)

(* ---------------------------- observers -------------------------------- *)

\* GET /api/v1/zones
zones_items == Keys(mem.zones)
\* The hosts of zone z in the tree (<<>> when z is no key).
Hosts(z) == IF HasKey(mem.zones, z) THEN heap[ZoneRef(mem.zones, z)] ELSE <<>>
\* The whole tree as a client can read it.
Tree == [i \in 1..Len(mem.zones) |->
            [key |-> mem.zones[i].key, hosts |-> heap[mem.zones[i].ref]]]

(* ---------------------------- requests --------------------------------- *)

Idle == [kind |-> "idle"]

\* A request whose deferred task is waiting: the path parameters, the body,
\* the indices captured by the handler's lookup, the seconds of
\* asyncio.sleep left, and whether the task sits on a running loop.
\* alone is history: no other mutation of the same zone has been pending
\* or applied, and no reset has run, since this task was scheduled.
NewReq(kind, zone, hostname, groupname, body, hostidx, groupidx) ==
    [kind |-> kind, zone |-> zone, hostname |-> hostname,
     groupname |-> groupname, body |-> body, hostidx |-> hostidx,
     groupidx |-> groupidx, remaining |-> 0, loop |-> FALSE, alone |-> TRUE]

Busy(t) == reqs[t].kind # "idle"
\* A new mutating request is served by the first idle thread.
HasFree == \E t \in Threads : ~Busy(t)
FirstFree == CHOOSE t \in Threads : ~Busy(t) /\ \A u \in Threads : u < t => Busy(u)
Quiet(z) == \A u \in Threads : ~Busy(u) \/ reqs[u].zone # z
Disturb(rs, z) ==
    [u \in Threads |->
        IF rs[u].kind # "idle" /\ rs[u].zone = z
        THEN [rs[u] EXCEPT !.alone = FALSE] ELSE rs[u]]
DisturbAll(rs) ==
    [u \in Threads |->
        IF rs[u].kind # "idle" THEN [rs[u] EXCEPT !.alone = FALSE] ELSE rs[u]]

\* The view functions declared async def; the others are plain def.
AsyncViews == {"post_group"}
\* get_loop(): the running loop of the calling thread, if there is one.  An
\* async view runs inside a loop; a plain view does not.
get_loop(kind) == kind \in AsyncViews

\* bg_run(func, second): the task (sleep, then func) is created on the
\* running loop when there is one, and is otherwise run to completion by
\* asyncio.run, which blocks the calling handler.
bg_run(r, second) ==
    [r EXCEPT !.remaining = second, !.loop = get_loop(r.kind)]

\* What a step leaves for a client: the event ("read" for a read endpoint,
\* "abort" for a mutating endpoint that fails its lookup, else the endpoint
\* or the task event), the HTTP status (0: no response in this step), the
\* operation handle if one is returned,
\* the request that the step completed, and for a reset whether it is the
\* first (1) or a later one (2) of a run of resets with nothing in between.
Event(op, status, handle, req) ==
    [op |-> op, status |-> status, handle |-> handle, req |-> req, nth |-> 0]
Handle(n) == <<[name |-> n, done |-> FALSE]>>

(* ---------------------------- deferred tasks --------------------------- *)

Raise(zs, hp) == [ok |-> FALSE, zones |-> zs, heap |-> hp]
Done(zs, hp) == [ok |-> TRUE, zones |-> zs, heap |-> hp]

\* post_host.task appending to the host list of the first zone key in
\* place of the zone of the request.
post_host_task_first_zone(r, name, zs, hp) ==
    LET zs1 == Touch(zs, r.zone)
        ref == zs1[1].ref
    IN Done(zs1, [hp EXCEPT ![ref] =
            Append(@, [name |-> name, gcp |-> r.body, groups |-> <<>>])])

\* post_host.task: mem["zones"][zone].append({name, gcp, groups: []})
post_host_task(r, name, zs, hp) ==
    LET zs1 == Touch(zs, r.zone)
        ref == ZoneRef(zs, r.zone)
    IN Done(zs1, [hp EXCEPT ![ref] =
            Append(@, [name |-> name, gcp |-> r.body, groups |-> <<>>])])

\* delete_host.task looking the host up again by the name of the request
\* when it runs, in place of using the index found by the handler.
delete_host_task_by_name(r, zs, hp) ==
    LET zs1 == Touch(zs, r.zone)
        ref == ZoneRef(zs, r.zone)
        idx == find_host(hp[ref], r.hostname).idx
    IN IF idx = -1 THEN Raise(zs1, hp)
       ELSE Done(zs1, [hp EXCEPT ![ref] = Pop(@, idx)])

\* delete_host.task written with pop() in place of pop(idx): the last host
\* is removed.
delete_host_task_pop_last(r, zs, hp) ==
    LET zs1 == Touch(zs, r.zone)
        ref == ZoneRef(zs, r.zone)
    IN IF hp[ref] = <<>> THEN Raise(zs1, hp)
       ELSE Done(zs1, [hp EXCEPT ![ref] = Pop(@, Len(@) - 1)])

\* delete_host.task removing the host at the index only if it still bears
\* the name of the request, and doing nothing otherwise.
delete_host_task_if_named(r, zs, hp) ==
    LET zs1 == Touch(zs, r.zone)
        ref == ZoneRef(zs, r.zone)
    IN IF r.hostidx >= Len(hp[ref]) THEN Raise(zs1, hp)
       ELSE IF hp[ref][r.hostidx + 1].name # r.hostname THEN Done(zs1, hp)
       ELSE Done(zs1, [hp EXCEPT ![ref] = Pop(@, r.hostidx)])

\* delete_host.task: mem["zones"][zone].pop(idx)
delete_host_task(r, zs, hp) ==
    LET zs1 == Touch(zs, r.zone)
        ref == ZoneRef(zs, r.zone)
    IN IF r.hostidx >= Len(hp[ref]) THEN Raise(zs1, hp)
       ELSE Done(zs1, [hp EXCEPT ![ref] = Pop(@, r.hostidx)])

\* delete_group.task written with pop() in place of pop(groupidx): the
\* last group is removed.
delete_group_task_pop_last(r, zs, hp) ==
    LET zs1 == Touch(zs, r.zone)
        ref == ZoneRef(zs, r.zone)
    IN IF r.hostidx >= Len(hp[ref]) THEN Raise(zs1, hp)
       ELSE IF hp[ref][r.hostidx + 1].groups = <<>> THEN Raise(zs1, hp)
       ELSE Done(zs1, [hp EXCEPT ![ref][r.hostidx + 1].groups =
                                        Pop(@, Len(@) - 1)])

\* delete_group.task: mem["zones"][zone][hostidx]["groups"].pop(groupidx)
delete_group_task(r, zs, hp) ==
    LET zs1 == Touch(zs, r.zone)
        ref == ZoneRef(zs, r.zone)
    IN IF r.hostidx >= Len(hp[ref]) THEN Raise(zs1, hp)
       ELSE IF r.groupidx >= Len(hp[ref][r.hostidx + 1].groups)
       THEN Raise(zs1, hp)
       ELSE Done(zs1, [hp EXCEPT ![ref][r.hostidx + 1].groups =
                                        Pop(@, r.groupidx)])

\* post_group.task: mem["zones"][zone][hostidx]["groups"].append(group)
post_group_task(r, zs, hp) ==
    LET zs1 == Touch(zs, r.zone)
        ref == ZoneRef(zs, r.zone)
    IN IF r.hostidx >= Len(hp[ref]) THEN Raise(zs1, hp)
       ELSE Done(zs1, [hp EXCEPT ![ref][r.hostidx + 1].groups =
                                        Append(@, r.body)])

\* func() of the task of request r; name is what gen_host_name returns.
RunTask(r, name, zs, hp) ==
    CASE r.kind = "post_host" -> post_host_task(r, name, zs, hp)
      [] r.kind = "delete_host" -> delete_host_task(r, zs, hp)
      [] r.kind = "delete_group" -> delete_group_task(r, zs, hp)
      [] r.kind = "post_group" -> post_group_task(r, zs, hp)

(* ---------------------------- state ------------------------------------ *)

\* The state once the module is loaded: mem is built with an empty
\* defaultdict (line 35) and init() has run (line 324).
LoadedHeap == [r \in Refs |-> IF r.o = "DATA" THEN DATA.zones[r.z] ELSE <<>>]

Init ==
    /\ heap = init(<<>>, LoadedHeap).heap
    /\ mem = [info |-> [type |-> "cloud"], zones |-> init(<<>>, LoadedHeap).zones]
    /\ reqs = [t \in Threads |-> Idle]
    /\ last = Event("load", 0, <<>>, Idle)
    /\ nops = 0

(* ---------------------------- read endpoints --------------------------- *)

\* GET /api/info
info ==
    /\ last' = Event("read", 200, <<>>, Idle)
    /\ UNCHANGED <<heap, mem, reqs, nops>>

\* GET /api/v1/zones
zones ==
    /\ last' = Event("read", 200, <<>>, Idle)
    /\ UNCHANGED <<heap, mem, reqs, nops>>

\* The items of GET /api/v1/zones/<zone>/hosts, read from zones zs.
get_hosts_items(zs, hp, zone) ==
    LET hosts == hp[ZoneRef(zs, zone)]
    IN [i \in 1..Len(hosts) |-> [name |-> hosts[i].name, gcp |-> hosts[i].gcp]]

\* GET /api/v1/zones/<zone>/hosts
get_hosts(zone) ==
    /\ mem' = [mem EXCEPT !.zones = Touch(@, zone)]
    /\ last' = Event("read", 200, <<>>, Idle)
    /\ UNCHANGED <<heap, reqs, nops>>

\* GET /api/v1/zones/<zone>/hosts/<hostname>/groups
get_groups(zone, hostname) ==
    LET f == find_host(heap[ZoneRef(mem.zones, zone)], hostname)
    IN /\ mem' = [mem EXCEPT !.zones = Touch(@, zone)]
       /\ last' = Event("read", IF f.host = <<>> THEN 404 ELSE 200, <<>>, Idle)
       /\ UNCHANGED <<heap, reqs, nops>>

\* GET /api/reset: init(); the view returns None, which the framework
\* answers with a server error.
reset ==
    /\ mem' = [mem EXCEPT !.zones = init(mem.zones, heap).zones]
    /\ heap' = init(mem.zones, heap).heap
    /\ reqs' = DisturbAll(reqs)
    /\ last' = [Event("reset", 500, <<>>, Idle) EXCEPT
                    !.nth = IF last.op = "reset" THEN 2 ELSE 1]
    /\ UNCHANGED nops

(* ---------------------------- mutating endpoints ----------------------- *)

\* A thread starts to wait for the task of request r on zone r.zone.
Schedule(r, second) ==
    /\ nops < MaxOps
    /\ HasFree
    /\ nops' = nops + 1
    /\ reqs' = [Disturb(reqs, r.zone) EXCEPT
                    ![FirstFree] = [bg_run(r, second) EXCEPT
                                       !.alone = Quiet(r.zone)]]

\* flask.abort(404) in the handler of a mutating endpoint.
NotFound ==
    /\ last' = Event("abort", 404, <<>>, Idle)
    /\ UNCHANGED <<heap, reqs, nops>>

\* POST /api/v1/zones/<zone>/hosts: no lookup; bg_run blocks the handler.
post_host(zone, gcp) ==
    /\ Schedule(NewReq("post_host", zone, "", "", gcp, -1, -1), HostDelay)
    /\ last' = Event("post_host", 0, <<>>, Idle)
    /\ UNCHANGED <<heap, mem>>

\* DELETE /api/v1/zones/<zone>/hosts/<hostname>
delete_host(zone, hostname) ==
    LET f == find_host(heap[ZoneRef(mem.zones, zone)], hostname)
    IN /\ mem' = [mem EXCEPT !.zones = Touch(@, zone)]
       /\ IF f.idx < 0
          THEN NotFound
          ELSE /\ Schedule(NewReq("delete_host", zone, hostname, "", <<>>,
                                     f.idx, -1), HostDelay)
               /\ last' = Event("delete_host", 0, <<>>, Idle)
               /\ UNCHANGED heap

\* DELETE /api/v1/zones/<zone>/hosts/<hostname>/groups/<groupname>
delete_group(zone, hostname, groupname) ==
    LET f == find_host(heap[ZoneRef(mem.zones, zone)], hostname)
    IN /\ mem' = [mem EXCEPT !.zones = Touch(@, zone)]
       /\ IF f.host = <<>>
          THEN NotFound
          ELSE LET g == find_group(f.host[1].groups, groupname)
               IN IF g.idx < 0
                  THEN NotFound
                  ELSE /\ Schedule(NewReq("delete_group", zone, hostname,
                                             groupname, <<>>, f.idx, g.idx),
                                   GroupDeleteDelay)
                       /\ last' = Event("delete_group", 0, <<>>, Idle)
                       /\ UNCHANGED heap

\* POST /api/v1/zones/<zone>/hosts/<hostname>/cvds: an async view; bg_run
\* puts the task on the running loop and the view returns the handle.
post_group(zone, hostname, group) ==
    LET f == find_host(heap[ZoneRef(mem.zones, zone)], hostname)
    IN /\ mem' = [mem EXCEPT !.zones = Touch(@, zone)]
       /\ IF f.host = <<>>
          THEN NotFound
          ELSE /\ Schedule(NewReq("post_group", zone, hostname, "", group,
                                     f.idx, -1), GroupCreateDelay)
               /\ \E n \in gen_operation_name(OpNameLen) :
                     last' = Event("post_group", 200, Handle(n), reqs'[FirstFree])
               /\ UNCHANGED heap

(* ---------------------------- time and tasks --------------------------- *)

Sleeping(t) == Busy(t) /\ reqs[t].remaining > 0

\* The seconds until the next asyncio.sleep in progress is over.
NextWake ==
    CHOOSE d \in 1..GroupDeleteDelay :
        /\ \E t \in Threads : Sleeping(t) /\ reqs[t].remaining = d
        /\ \A t \in Threads : Sleeping(t) => reqs[t].remaining >= d

\* Time passes until the next asyncio.sleep in progress is over; a task
\* whose sleep is over runs then or later.
Tick ==
    /\ \E t \in Threads : Sleeping(t)
    /\ reqs' = [t \in Threads |->
                   IF Sleeping(t)
                   THEN [reqs[t] EXCEPT !.remaining = @ - NextWake]
                   ELSE reqs[t]]
    /\ last' = Event("tick", 0, <<>>, Idle)
    /\ UNCHANGED <<heap, mem, nops>>

\* asyncio.run(task()) of a plain view finishes: the sleep is over, func()
\* runs, and the handler returns the handle; an exception of func() leaves
\* asyncio.run and the handler.
RunBlocking(t) ==
    /\ Busy(t) /\ ~reqs[t].loop /\ reqs[t].remaining = 0
    /\ \E name \in gen_host_name(HostNameLen),
          n \in gen_operation_name(OpNameLen) :
          LET res == RunTask(reqs[t], name, mem.zones, heap)
          IN /\ heap' = res.heap
             /\ mem' = [mem EXCEPT !.zones = res.zones]
             /\ last' = IF res.ok
                        THEN Event(reqs[t].kind, 200, Handle(n), reqs[t])
                        ELSE Event(reqs[t].kind, 500, <<>>, reqs[t])
    /\ reqs' = [reqs EXCEPT ![t] = Idle]
    /\ UNCHANGED nops

\* The task of an async view runs on the loop it was created on, if that
\* loop is still running when the sleep is over; nobody awaits the task,
\* so an exception of func() reaches no caller.
RunLoopTask(t) ==
    /\ Busy(t) /\ reqs[t].loop /\ reqs[t].remaining = 0
    /\ \E name \in gen_host_name(HostNameLen) :
          LET res == RunTask(reqs[t], name, mem.zones, heap)
          IN /\ heap' = res.heap
             /\ mem' = [mem EXCEPT !.zones = res.zones]
             /\ last' = Event(IF res.ok THEN "task" ELSE "task_failed", 0,
                              <<>>, reqs[t])
    /\ reqs' = [reqs EXCEPT ![t] = Idle]
    /\ UNCHANGED nops

\* The loop of an async view is the one made for that call of the view;
\* when it is closed after the view has returned, the tasks still pending
\* on it are cancelled and func() never runs.
LoopClose(t) ==
    /\ Busy(t) /\ reqs[t].loop
    /\ reqs' = [reqs EXCEPT ![t] = Idle]
    /\ last' = Event("cancelled", 0, <<>>, reqs[t])
    /\ UNCHANGED <<heap, mem, nops>>

(* ---------------------------- specification ---------------------------- *)

Next ==
    \/ info
    \/ zones
    \/ \E z \in ZoneArgs : get_hosts(z)
    \/ \E p \in HostPaths : get_groups(p[1], p[2])
    \/ reset
    \/ \E z \in ZoneArgs, g \in GcpArgs : post_host(z, g)
    \/ \E p \in HostPaths : delete_host(p[1], p[2])
    \/ \E p \in GroupPaths : delete_group(p[1], p[2], p[3])
    \/ \E p \in HostPaths, g \in GroupBodies : post_group(p[1], p[2], g)
    \/ Tick
    \/ \E t \in Threads : RunBlocking(t)
    \/ \E t \in Threads : RunLoopTask(t)
    \/ \E t \in Threads : LoopClose(t)

Spec == Init /\ [][Next]_vars

\* The server as flask serves it: the loop of an async view ends with the
\* view, so a task left on it is always cancelled and never runs.
NextFlask ==
    \/ info
    \/ zones
    \/ \E z \in ZoneArgs : get_hosts(z)
    \/ \E p \in HostPaths : get_groups(p[1], p[2])
    \/ reset
    \/ \E z \in ZoneArgs, g \in GcpArgs : post_host(z, g)
    \/ \E p \in HostPaths : delete_host(p[1], p[2])
    \/ \E p \in GroupPaths : delete_group(p[1], p[2], p[3])
    \/ \E p \in HostPaths, g \in GroupBodies : post_group(p[1], p[2], g)
    \/ Tick
    \/ \E t \in Threads : RunBlocking(t)
    \/ \E t \in Threads : LoopClose(t)

SpecFlask == Init /\ [][NextFlask]_vars

(* ---------------------------- properties ------------------------------- *)

\* The hosts of zone z in a store (<<>> when z is no key).
HostsIn(zs, hp, z) == IF HasKey(zs, z) THEN hp[ZoneRef(zs, z)] ELSE <<>>
TreeIn(zs, hp) ==
    [i \in 1..Len(zs) |-> [key |-> zs[i].key, hosts |-> hp[zs[i].ref]]]
\* The 1-based position of the first element of xs named name, 0 if none.
FirstNamed(xs, name) ==
    IF \E i \in 1..Len(xs) : xs[i].name = name
    THEN CHOOSE i \in 1..Len(xs) :
            /\ xs[i].name = name
            /\ \A j \in 1..(i - 1) : xs[j].name # name
    ELSE 0
RemoveAt(xs, i) == SubSeq(xs, 1, i - 1) \o SubSeq(xs, i + 1, Len(xs))
NamesOf(xs) == [i \in 1..Len(xs) |-> xs[i].name]
Distinct(xs) == \A i, j \in 1..Len(xs) : xs[i] = xs[j] => i = j

\* C1: right after a reset, list-zones returns the seeded keys in seed
\* order and every seeded zone holds exactly the hosts, groups and cvds of
\* the seed dataset.
C1_SeedAfterReset ==
    last.op = "reset" =>
        /\ zones_items = DataKeys
        /\ \A i \in 1..Len(DataKeys) : Hosts(DataKeys[i]) = DATA.zones[DataKeys[i]]

\* C2: the seed dataset DATA keeps the value of its literal whatever
\* mutations have been applied to the live tree.
C2_SeedUnchanged ==
    \A z \in {US, AP} : DATA_zones(z) = DATA.zones[z]

\* C3: when a create-host request returns its operation handle the new
\* host is not yet shown by list-hosts of the zone (it appears only once
\* the delay has elapsed after that): the step that returns the handle
\* leaves the items of list-hosts as they were.
C3_HostNotShownAtReturn ==
    [][\A t \in Threads :
          (RunBlocking(t) /\ reqs[t].kind = "post_host" /\ last'.status = 200)
          => get_hosts_items(mem'.zones, heap', reqs[t].zone)
                = get_hosts_items(mem.zones, heap, reqs[t].zone)]_vars

\* C4: a delete-host, delete-group or create-group request that fails its
\* lookup returns 404, schedules no task and leaves the whole tree (zone
\* keys included) unchanged.
C4_NotFoundChangesNothing ==
    [][(/\ \/ \E p \in HostPaths : delete_host(p[1], p[2])
           \/ \E p \in GroupPaths : delete_group(p[1], p[2], p[3])
           \/ \E p \in HostPaths, g \in GroupBodies : post_group(p[1], p[2], g)
        /\ last'.op = "abort")
       => /\ last'.status = 404
          /\ reqs' = reqs
          /\ TreeIn(mem'.zones, heap') = Tree]_vars

\* C5: a list-hosts or create-host request for a zone that is no key of
\* the tree returns 404; the create-host schedules no task; and no host is
\* ever held under a zone name that was not seeded.
C5_MissingZoneNotFound ==
    /\ [][\A z \in ZoneArgs :
            ~HasKey(mem.zones, z) =>
                /\ get_hosts(z) => last'.status = 404
                /\ (\E g \in GcpArgs : post_host(z, g))
                      => (last'.status = 404 /\ reqs' = reqs)]_vars
    /\ [](\A z \in ZoneArgs : z \notin {US, AP} => Hosts(z) = <<>>)

\* C6: in every reachable state the zone keys list-zones returns are
\* exactly the seeded zones.
C6_ZoneSetFixed ==
    {zones_items[i] : i \in 1..Len(zones_items)} = {US, AP}

\* C7: when the task of a delete-group request for group g of host h runs
\* and no other mutation of the zone was pending or applied since the
\* request was made, the groups of h become the former list without the
\* first group named g, the others in their order, and nothing else in the
\* zone changes.
C7_GroupDeletion ==
    [][\A t \in Threads :
          (RunBlocking(t) /\ reqs[t].kind = "delete_group" /\ reqs[t].alone)
          => LET r == reqs[t]
                 hs == Hosts(r.zone)
                 h == FirstNamed(hs, r.hostname)
                 i == FirstNamed(hs[h].groups, r.groupname)
             IN /\ h > 0
                /\ i > 0
                /\ last'.status = 200
                /\ HostsIn(mem'.zones, heap', r.zone)
                      = [hs EXCEPT ![h].groups = RemoveAt(hs[h].groups, i)]]_vars

\* A delete-group of group-2 of ap-host2 has run undisturbed and the host
\* holds group-1 and group-3.
C7_Witness ==
    /\ last.op = "delete_group" /\ last.status = 200
    /\ last.req.alone /\ last.req.groupname = "group-2"
    /\ Len(Hosts(AP)) = 2
    /\ NamesOf(Hosts(AP)[2].groups) = <<"group-1", "group-3">>

\* C8: a reset that directly follows a reset leaves the observable state
\* (zone list, hosts, groups, cvds) as the first reset left it.
C8_ResetIdempotent ==
    [][(last.op = "reset" /\ reset)
       => /\ Keys(mem'.zones) = zones_items
          /\ TreeIn(mem'.zones, heap') = Tree]_vars

\* Two resets in a row have run after the tree was mutated.
C8_Witness ==
    /\ last.op = "reset" /\ last.nth = 2
    /\ \E z \in {US, AP} : Hosts(z) # DATA.zones[z]

\* C9: host names are unique within each zone and group names are unique
\* within each host.
C9_NamesUnique ==
    \A i \in 1..Len(Tree) :
        /\ Distinct(NamesOf(Tree[i].hosts))
        /\ \A k \in 1..Len(Tree[i].hosts) :
              Distinct(NamesOf(Tree[i].hosts[k].groups))

\* C10: a create-group request for an existing host returns a handle with
\* done = false, and its task, with no other mutation of the zone pending
\* or applied meanwhile, ends only by appending the caller's group as the
\* last group of that host.
C10_GroupCreatedEventually ==
    [][\A t \in Threads :
          /\ (\E p \in HostPaths, g \in GroupBodies : post_group(p[1], p[2], g))
             /\ last'.status = 200
             => last'.handle # <<>> /\ last'.handle[1].done = FALSE
          /\ (Busy(t) /\ reqs[t].kind = "post_group" /\ reqs[t].alone
              /\ reqs'[t] = Idle)
             => LET r == reqs[t]
                    hs == Hosts(r.zone)
                    h == FirstNamed(hs, r.hostname)
                IN /\ h > 0
                   /\ HostsIn(mem'.zones, heap', r.zone)
                         = [hs EXCEPT ![h].groups = Append(@, r.body)]]_vars

\* The kinds of request that schedule a deferred mutation.
Mutating == {"post_host", "delete_host", "delete_group", "post_group"}

\* C11: the handler of a validated mutating request returns its operation
\* handle (done = false) before the mutation is applied: the step that
\* returns the handle leaves the tree as it was and the task of the request
\* is still pending after it.
C11_AcceptBeforeApply ==
    [][(/\ last' # last
        /\ last'.op \in Mutating
        /\ last'.status = 200
        /\ last'.handle # <<>>)
       => /\ last'.handle[1].done = FALSE
          /\ TreeIn(mem'.zones, heap') = Tree
          /\ \E t \in Threads : Busy(t)' /\ reqs'[t].kind = last'.op]_vars

C13_HandlersLeaveTree ==
    [][(\/ info
        \/ zones
        \/ \E z \in ZoneArgs : get_hosts(z)
        \/ \E p \in HostPaths : get_groups(p[1], p[2])
        \/ \E z \in ZoneArgs, g \in GcpArgs : post_host(z, g)
        \/ \E p \in HostPaths : delete_host(p[1], p[2])
        \/ \E p \in GroupPaths : delete_group(p[1], p[2], p[3])
        \/ \E p \in HostPaths, g \in GroupBodies : post_group(p[1], p[2], g))
       => TreeIn(mem'.zones, heap') = Tree]_vars

\* The step of thread t runs func() of its pending task.
TaskStep(t) == RunBlocking(t) \/ RunLoopTask(t)

\* C14: a deferred task acts on the position captured by the lookup of its
\* request, whatever stands there when it runs: a delete-host task removes
\* the host at the captured index, a create-group or delete-group task
\* changes the groups of the host at the captured index.  Hence a
\* delete-host task applied between the lookup and the task of another
\* request of the zone makes the later task hit a host other than the one
\* its request names.
C14_StaleIndexRace ==
    [][\A t \in Threads :
          (TaskStep(t) /\ reqs[t].kind # "post_host"
           /\ reqs[t].hostidx < Len(Hosts(reqs[t].zone)))
          => LET r == reqs[t]
                 hs == Hosts(r.zone)
                 h == r.hostidx + 1
                 after == HostsIn(mem'.zones, heap', r.zone)
             IN CASE r.kind = "delete_host" -> after = RemoveAt(hs, h)
                  [] r.kind = "post_group" ->
                        after = [hs EXCEPT ![h].groups = Append(@, r.body)]
                  [] r.kind = "delete_group" ->
                        IF r.groupidx < Len(hs[h].groups)
                        THEN after = [hs EXCEPT ![h].groups =
                                            RemoveAt(@, r.groupidx + 1)]
                        ELSE after = hs]_vars

\* A delete-host task has just been applied while another delete-host
\* request of the zone, looked up before it, is still pending, and the
\* index that request captured now holds a host of another name.
C14_Witness ==
    /\ last.op = "delete_host" /\ last.status = 200
    /\ \E t \in Threads :
          /\ Busy(t) /\ reqs[t].kind = "delete_host"
          /\ reqs[t].zone = last.req.zone
          /\ reqs[t].hostidx < Len(Hosts(reqs[t].zone))
          /\ Hosts(reqs[t].zone)[reqs[t].hostidx + 1].name # reqs[t].hostname

\* func() of the pending task of thread t raises when run now.
TaskFails(t) ==
    \A name \in gen_host_name(HostNameLen) :
        ~RunTask(reqs[t], name, mem.zones, heap).ok

\* C15: a failure inside a deferred task is reported to no caller: the
\* step in which func() raises answers no request with an error and leaves
\* the tree as it was.
C15_TaskFailureUnreported ==
    [][\A t \in Threads :
          (TaskStep(t) /\ TaskFails(t))
          => /\ last'.status # 500
             /\ TreeIn(mem'.zones, heap') = Tree]_vars

\* C16: when the task of a delete-host request for host h runs and no
\* other mutation of the zone was pending or applied since the request was
\* made, the host list of the zone becomes the former list without the
\* first host named h, the other hosts in their order with their groups.
C16_HostDeletion ==
    [][\A t \in Threads :
          (RunBlocking(t) /\ reqs[t].kind = "delete_host" /\ reqs[t].alone)
          => LET r == reqs[t]
                 hs == Hosts(r.zone)
                 i == FirstNamed(hs, r.hostname)
             IN /\ i > 0
                /\ last'.status = 200
                /\ HostsIn(mem'.zones, heap', r.zone) = RemoveAt(hs, i)]_vars

\* A delete-host of ap-host1 has run undisturbed and the zone holds
\* ap-host2 with the three groups it had.
C16_Witness ==
    /\ last.op = "delete_host" /\ last.status = 200
    /\ last.req.alone /\ last.req.hostname = "ap-host1"
    /\ Hosts(AP) = <<DATA.zones[AP][2]>>

C18_ZoneIsolation ==
    [][\A t \in Threads :
          TaskStep(t)
          => \A z \in ZoneArgs :
                z # reqs[t].zone
                => HostsIn(mem'.zones, heap', z) = Hosts(z)]_vars

\* A create-host task for ap-northeast2-c has run, that zone has a third
\* host, and us-central1-a holds what it held.
C18_Witness ==
    /\ last.op = "post_host" /\ last.status = 200
    /\ last.req.zone = AP
    /\ Len(Hosts(AP)) = 3
    /\ Hosts(US) = DATA.zones[US]

(* ---------------------------- the lookups alone ------------------------ *)

\* The longest list given to find_host and find_group.
MaxLen == 2

\* Names of the elements of the lists, and the names looked up (one more).
FindNames == {"a", "b"}
FindArgs == FindNames \cup {"c"}
\* Hosts and groups as the tree holds them; two of a name differ in another
\* field, so that which of them a lookup returned can be told.
FindHostPool ==
    {[name |-> n, gcp |-> [machine_type |-> m, min_cpu_platform |-> ""],
      groups |-> <<>>] : n \in FindNames, m \in {"n1", "n2"}}
FindGroupPool ==
    {[name |-> n, cvds |-> c] : n \in FindNames,
                                c \in {<<>>, <<Cvd("cvd-1", "g")>>}}
SeqsUpTo(S, n) == UNION {[1..k -> S] : k \in 0..n}

\* A host list under the key us-central1-a and a group list on the one host
\* under ap-northeast2-c, both of any content up to MaxLen.
InitFind ==
    /\ \E hosts \in SeqsUpTo(FindHostPool, MaxLen),
          groups \in SeqsUpTo(FindGroupPool, MaxLen) :
          heap = [r \in Refs |->
                    IF r = MemRef(US) THEN hosts
                    ELSE IF r = MemRef(AP)
                    THEN <<[name |-> "a", gcp |-> SeedGcp, groups |-> groups]>>
                    ELSE <<>>]
    /\ mem = [info |-> [type |-> "cloud"],
              zones |-> <<[key |-> US, ref |-> MemRef(US)],
                          [key |-> AP, ref |-> MemRef(AP)]>>]
    /\ reqs = [t \in Threads |-> Idle]
    /\ last = Event("load", 0, <<>>, Idle)
    /\ nops = 0

\* host, idx = find_host(mem["zones"][zone], hostname)
FindHostCall(name) ==
    /\ last' = Event("find_host", 0, <<>>,
                     [kind |-> "find", name |-> name,
                      result |-> find_host(Hosts(US), name)])
    /\ UNCHANGED <<heap, mem, reqs, nops>>

\* group, idx = find_group(host["groups"], groupname)
FindGroupCall(name) ==
    /\ last' = Event("find_group", 0, <<>>,
                     [kind |-> "find", name |-> name,
                      result |-> find_group(Hosts(AP)[1].groups, name)])
    /\ UNCHANGED <<heap, mem, reqs, nops>>

NextFind ==
    \/ \E name \in FindArgs : FindHostCall(name)
    \/ \E name \in FindArgs : FindGroupCall(name)

SpecFind == InitFind /\ [][NextFind]_vars

\* C19: find_host returns the first host of the given name with its
\* 0-based index, and (None, -1) when no host of the list has the name or
\* the list is empty; find_group does the same over a list of groups.
C19_FirstMatch ==
    /\ last.op = "find_host"
       => LET xs == Hosts(US)
              i == FirstNamed(xs, last.req.name)
              res == last.req.result
          IN IF i = 0 THEN res = [host |-> <<>>, idx |-> -1]
             ELSE res = [host |-> <<xs[i]>>, idx |-> i - 1]
    /\ last.op = "find_group"
       => LET xs == Hosts(AP)[1].groups
              i == FirstNamed(xs, last.req.name)
              res == last.req.result
          IN IF i = 0 THEN res = [group |-> <<>>, idx |-> -1]
             ELSE res = [group |-> <<xs[i]>>, idx |-> i - 1]

\* find_host was given a list of two different hosts of the name looked up
\* and returned the first.
C19_Witness ==
    /\ last.op = "find_host"
    /\ Len(Hosts(US)) = 2
    /\ Hosts(US)[1].name = last.req.name
    /\ Hosts(US)[2].name = last.req.name
    /\ Hosts(US)[1] # Hosts(US)[2]
    /\ last.req.result = [host |-> <<Hosts(US)[1]>>, idx |-> 0]

====
